---- MODULE Spec2Model ----
(***************************************************************************)
(* Schema-validated storage facades of stork:                              *)
(*   createLocalStorage  (zod-local-storage/src/LocalStorage.ts, sync)     *)
(*   createAsyncStorage  (zod-async-storage/src/AsyncStorage.ts, async)    *)
(* A JavaScript string is a sequence of lexical chunks (Text); JSON.parse  *)
(* and JSON.stringify are computed over those chunks.                      *)
(***************************************************************************)
EXTENDS Integers, Sequences, FiniteSets, TLC

\* ------------------------------------------------------------------ bounds
\* longest key list handed to multiGet
MaxBatch == 2

\* ------------------------------------------------------------- JS values
\* A JS string is a Text: a sequence of chunks.  The JSON delimiters
\* { } : , " and the escaped quote are chunks of their own; every other
\* chunk is a run of ordinary characters.
QUOTE == "\""
ESCQUOTE == "\\\""
Numerals == {"1", "2"}

EmptyText == <<>>
NoFields == <<>>

\* Every JS value has the same three fields: t (type tag), s (a Text: the
\* characters of a string, the digits of a number, the instant of a Date, the
\* message of an Error) and f (the members of an object, in insertion order).
JNull == [t |-> "null", s |-> EmptyText, f |-> NoFields]
JUndefined == [t |-> "undefined", s |-> EmptyText, f |-> NoFields]
JNum(d) == [t |-> "num", s |-> <<d>>, f |-> NoFields]
JStr(text) == [t |-> "str", s |-> text, f |-> NoFields]
JDate(d) == [t |-> "date", s |-> <<d>>, f |-> NoFields]
JObj(members) == [t |-> "obj", s |-> EmptyText, f |-> members]
\* a member value that refers back to the object holding it
JCycle == [t |-> "cycle", s |-> EmptyText, f |-> NoFields]
\* an array of [key, value] pairs: f holds one Member per pair
JArray(pairs) == [t |-> "array", s |-> EmptyText, f |-> pairs]
Member(name, value) == [n |-> name, v |-> value]

\* expect(a).toEqual(b): recursive equality that ignores member order and
\* members whose value is undefined.
RECURSIVE DeepEqual(_, _)
Defined(members) == {i \in 1..Len(members) : members[i].v.t # "undefined"}
DeepEqual(a, b) ==
  IF a.t # b.t THEN FALSE
  ELSE IF a.t # "obj" THEN a.s = b.s
  ELSE /\ \A i \in Defined(a.f) : \E j \in Defined(b.f) :
             b.f[j].n = a.f[i].n /\ DeepEqual(a.f[i].v, b.f[j].v)
       /\ \A j \in Defined(b.f) : \E i \in Defined(a.f) :
             b.f[j].n = a.f[i].n /\ DeepEqual(a.f[i].v, b.f[j].v)

\* ---------------------------------------------------------- JSON.stringify
RECURSIVE EscapeText(_)
EscapeText(text) ==
  IF text = <<>> THEN <<>>
  ELSE <<IF Head(text) = QUOTE THEN ESCQUOTE ELSE Head(text)>> \o EscapeText(Tail(text))

QuoteText(text) == <<QUOTE>> \o EscapeText(text) \o <<QUOTE>>

RECURSIVE JSONStringify(_)
RECURSIVE StringifyMembers(_, _)
\* the members of an object, comma separated; undefined members are skipped
StringifyMembers(members, first) ==
  IF members = <<>> THEN <<>>
  ELSE LET m == Head(members) IN
       IF m.v.t = "undefined" THEN StringifyMembers(Tail(members), first)
       ELSE (IF first THEN <<>> ELSE <<",">>)
            \o QuoteText(m.n) \o <<":">> \o JSONStringify(m.v)
            \o StringifyMembers(Tail(members), FALSE)

\* JSON.stringify(value) raises a TypeError on a circular structure
RECURSIVE StringifyThrows(_)
StringifyThrows(v) ==
  \/ v.t = "cycle"
  \/ \E i \in 1..Len(v.f) : StringifyThrows(v.f[i].v)

\* JSON.stringify(value) for a defined value: a Date serializes through
\* toJSON() to a string literal.
JSONStringify(v) ==
  CASE v.t = "null" -> <<"null">>
    [] v.t = "num"  -> v.s
    [] v.t = "str"  -> QuoteText(v.s)
    [] v.t = "date" -> QuoteText(v.s)
    [] v.t = "obj"  -> <<"{">> \o StringifyMembers(v.f, TRUE) \o <<"}">>

\* -------------------------------------------------------------- JSON.parse
\* A parse step yields [ok, v, rest]: ok = FALSE is a SyntaxError.
SyntaxError == [ok |-> FALSE, v |-> JNull, rest |-> <<>>]
Parsed(v, rest) == [ok |-> TRUE, v |-> v, rest |-> rest]

\* the characters of a string literal after its opening quote
RECURSIVE ParseChars(_, _)
ParseChars(text, acc) ==
  IF text = <<>> THEN SyntaxError
  ELSE IF Head(text) = QUOTE THEN Parsed(JStr(acc), Tail(text))
  ELSE IF Head(text) = ESCQUOTE THEN ParseChars(Tail(text), Append(acc, QUOTE))
  ELSE ParseChars(Tail(text), Append(acc, Head(text)))

RECURSIVE ParseValue(_)
RECURSIVE ParseMembers(_, _)
\* members after "{" or after ","; a repeated name overwrites the earlier one
PutMember(members, name, value) ==
  IF \E i \in 1..Len(members) : members[i].n = name
  THEN [i \in 1..Len(members) |->
          IF members[i].n = name THEN Member(name, value) ELSE members[i]]
  ELSE Append(members, Member(name, value))

ParseMembers(text, acc) ==
  IF text = <<>> \/ Head(text) # QUOTE THEN SyntaxError
  ELSE LET name == ParseChars(Tail(text), <<>>) IN
       IF ~name.ok \/ name.rest = <<>> \/ Head(name.rest) # ":" THEN SyntaxError
       ELSE LET val == ParseValue(Tail(name.rest)) IN
            IF ~val.ok \/ val.rest = <<>> THEN SyntaxError
            ELSE LET acc2 == PutMember(acc, name.v.s, val.v) IN
                 IF Head(val.rest) = "}" THEN Parsed(JObj(acc2), Tail(val.rest))
                 ELSE IF Head(val.rest) = "," THEN ParseMembers(Tail(val.rest), acc2)
                 ELSE SyntaxError

ParseValue(text) ==
  IF text = <<>> THEN SyntaxError
  ELSE LET c == Head(text) IN
       CASE c = "null"     -> Parsed(JNull, Tail(text))
         [] c \in Numerals -> Parsed(JNum(c), Tail(text))
         [] c = QUOTE      -> ParseChars(Tail(text), <<>>)
         [] c = "{"        -> IF Len(text) >= 2 /\ text[2] = "}"
                              THEN Parsed(JObj(<<>>), Tail(Tail(text)))
                              ELSE ParseMembers(Tail(text), <<>>)
         [] OTHER          -> SyntaxError

\* JSON.parse(text): one value and nothing after it
JSONParse(text) ==
  LET r == ParseValue(text) IN
  IF r.ok /\ r.rest = <<>> THEN r ELSE SyntaxError

\* ------------------------------------------------------------- the inputs
\* Registry handed to createLocalStorage / createAsyncStorage:
\*   user:     z.object({ id: z.number(), name: z.string().optional() })
\*   lastSeen: z.date()
\* "token" is a key outside the Registry; so is "toString", which names a
\* property the Registry object inherits from Object.prototype.
SchemaKeys == {"user", "lastSeen"}
InheritedKeys == {"toString"}
RawKeys == {"token"} \cup InheritedKeys
AllKeys == SchemaKeys \cup RawKeys
\* the keys an application uses day to day, and the keys of a loosely typed caller
AppKeys == SchemaKeys \cup {"token"}
LooseKeys == {"token"} \cup InheritedKeys

CorruptText == <<"corrupted json data">>
UserA == JObj(<<Member(<<"id">>, JNum("1"))>>)
UserB == JObj(<<Member(<<"id">>, JNum("1")), Member(<<"name">>, JUndefined)>>)
UserX == JObj(<<Member(<<"id">>, JNum("1")), Member(<<"role">>, JNum("2"))>>)
UserCyclic == JObj(<<Member(<<"id">>, JNum("1")), Member(<<"self">>, JCycle)>>)
BadUser == JObj(<<Member(<<"id">>, JStr(<<"not-a-number">>))>>)
Seen == JDate("2024-01-01")

\* values a caller hands to setItem(key, value)
SetValues(key) ==
  CASE key = "user"     -> {UserA, UserB, UserX, UserCyclic, BadUser}
    [] key = "lastSeen" -> {Seen}
    [] OTHER            -> {JStr(<<"abc123">>), JStr(CorruptText)}

\* text another writer can leave in the store
ExternalTexts == {CorruptText}

FailureModes == {"clear", "throw"}
Unset == "unset"
\* per-call options: onFailure may be absent, onValidationError may be absent
GetItemOptions == [onFailure : FailureModes \cup {Unset}, onValidationError : BOOLEAN]
\* global options; strict is "true", "false" or absent
StrictFlags == {"true", "false", Unset}
GlobalOptions == [strict : StrictFlags, onFailure : FailureModes \cup {Unset},
                  debug : BOOLEAN, onValidationError : BOOLEAN]
NoOptions == [onFailure |-> Unset, onValidationError |-> FALSE]

\* ------------------------------------------------------------ zod schemas
ZodError == [t |-> "zoderror", s |-> <<"Invalid input">>, f |-> NoFields]
Success(data) == [success |-> TRUE, data |-> data, error |-> JNull]
Failure == [success |-> FALSE, data |-> JNull, error |-> ZodError]

HasMember(v, name) == \E i \in 1..Len(v.f) : v.f[i].n = name
GetMember(v, name) == v.f[CHOOSE i \in 1..Len(v.f) : v.f[i].n = name].v
\* the members of v named in shape, in the order of shape (unknown keys stripped)
RECURSIVE PickMembers(_, _)
PickMembers(v, shape) ==
  IF shape = <<>> THEN <<>>
  ELSE (IF HasMember(v, Head(shape))
        THEN <<Member(Head(shape), GetMember(v, Head(shape)))>> ELSE <<>>)
       \o PickMembers(v, Tail(shape))

\* schemas[key].safeParse(value)
SafeParse(key, v) ==
  CASE key = "user" ->
         IF /\ v.t = "obj"
            /\ HasMember(v, <<"id">>) /\ GetMember(v, <<"id">>).t = "num"
            /\ HasMember(v, <<"name">>) => GetMember(v, <<"name">>).t \in {"str", "undefined"}
         THEN Success(JObj(PickMembers(v, <<(<<"id">>), (<<"name">>)>>)))
         ELSE Failure
    [] key = "lastSeen" -> IF v.t = "date" THEN Success(v) ELSE Failure
    [] OTHER -> Failure

\* `key in schemas`: the `in` operator also finds inherited properties
KeyInSchemas(key) == key \in SchemaKeys \cup InheritedKeys

\* `schemas[key]` has a safeParse method: an inherited property is a plain
\* function, calling safeParse on it raises a TypeError
HasSafeParse(key) == key \in SchemaKeys

\* ------------------------------------------------------------------ state
VARIABLES
  variant,  \* "sync": createLocalStorage, "async": createAsyncStorage
  cfg,      \* globalOptions closed over by the facade
  store,    \* the external store: key -> JNull (absent) or JStr(text)
  last,     \* the facade call that ran last: arguments, events in order, outcome
  prev,     \* the call before it, when both are calls on one key
  fault,    \* the store primitive that fails when invoked, and what it throws
  tasks     \* the calls of the async facade in flight, one per caller
vars == <<variant, cfg, store, last, prev, fault, tasks>>

\* `const { onFailure = "clear", debug = false, onValidationError } = globalOptions || {}`
onFailure == IF cfg.onFailure = Unset THEN "clear" ELSE cfg.onFailure
debug == cfg.debug
onValidationError == IF cfg.onValidationError THEN "global" ELSE "none"

\* ----------------------------------------------------------------- events
\* What a call does to its collaborators, in order: e names the store
\* primitive, observer, console or callback; k the key; v the value passed
\* (the text written, the parsed value shown to the observer, the result given
\* to the callback).
Ev(e, k, v) == [e |-> e, k |-> k, v |-> v]
Return(v) == [kind |-> "return", v |-> v]
Throw(v) == [kind |-> "throw", v |-> v]
JError(msg, key) == [t |-> "error", s |-> <<msg, key>>, f |-> NoFields]
TypeError(key) == JError("schema.safeParse is not a function", key)

\* `JSON.stringify` on a circular structure
CircularError == JError("Converting circular structure to JSON", "")

\* What a failing store primitive throws: an Error (a DOMException such as
\* QuotaExceededError is one), or a value that is not an Error.
StoreError == JError("QuotaExceededError", "")
StoreString == JStr(<<"string error">>)
Thrown == {StoreError, StoreString}
\* the primitives of window.localStorage and of AsyncStorage
Primitives(v) ==
  IF v = "sync" THEN {"getItem", "setItem", "removeItem", "clear", "key", "length"}
  ELSE {"getItem", "setItem", "removeItem", "clear", "getAllKeys",
        "multiGet", "multiSet", "multiRemove", "mergeItem", "multiMerge"}
NoFault == [p |-> "none", e |-> JUndefined]
Fails(p) == fault.p = p
\* one invocation of store primitive p: it takes effect, or it throws fault.e
Primitive(p, key, v) ==
  IF Fails(p)
  THEN [ev |-> <<Ev("fail." \o p, key, v)>>, out |-> Throw(fault.e)]
  ELSE [ev |-> <<Ev("store." \o p, key, v)>>, out |-> Return(JUndefined)]

\* `cause instanceof Error ? cause : new Error(String(cause))`
toError(cause) ==
  IF cause.t = "error" THEN cause ELSE [t |-> "error", s |-> cause.s, f |-> NoFields]

\* variant that logs whatever debug says
logClearedInvalidItem_Always(key) ==
  <<Ev("console.warn", key, JStr(<<"Cleared invalid item">>))>>
\* `if (debug) console.warn("Cleared invalid item", key)`
logClearedInvalidItem(key) ==
  IF debug THEN <<Ev("console.warn", key, JStr(<<"Cleared invalid item">>))>> ELSE <<>>

\* the store after the store primitives among the events have run
RECURSIVE StoreAfter(_, _)
StoreAfter(st, evs) ==
  IF evs = <<>> THEN st
  ELSE LET x == Head(evs)
           named(k) == {i \in 1..Len(x.v.f) : x.v.f[i].n = <<k>>}
           st2 == CASE x.e = "store.setItem"    -> [st EXCEPT ![x.k] = x.v]
                    [] x.e = "store.removeItem" -> [st EXCEPT ![x.k] = JNull]
                    [] x.e = "store.clear"      -> [k \in DOMAIN st |-> JNull]
                    [] x.e = "store.multiSet"   ->
                         [k \in DOMAIN st |->
                            IF named(k) = {} THEN st[k]
                            ELSE x.v.f[CHOOSE i \in named(k) : \A j \in named(k) : j <= i].v]
                    [] x.e = "store.multiRemove" ->
                         [k \in DOMAIN st |-> IF named(k) = {} THEN st[k] ELSE JNull]
                    [] OTHER                    -> st
       IN StoreAfter(st2, Tail(evs))

\* ------------------------------------------------- parseAndValidateValue
\* The engine's result: ev are the events up to and including the issued
\* remove, post the events after the remove has completed, out the outcome.
Engine(ev, post, out) == [ev |-> ev, post |-> post, out |-> out]

\* `validationErrorCallback?.(key, result.error, parsedValue)`
CallObserver(cb, key, parsedValue) ==
  IF cb = "none" THEN <<>> ELSE <<Ev("observer." \o cb, key, parsedValue)>>

\* variants of the failure policy with a slip in it
Recover_NoRemove(key, failureMode, msg) ==
  IF failureMode = "clear"
  THEN [ev |-> <<>>, post |-> logClearedInvalidItem(key), out |-> Return(JNull)]
  ELSE [ev |-> <<>>, post |-> <<>>, out |-> Throw(JError(msg, key))]
Recover_RemoveThenThrow(key, failureMode, msg) ==
  [ev |-> <<Ev("store.removeItem", key, JNull)>>,
   post |-> logClearedInvalidItem(key),
   out |-> IF failureMode = "clear" THEN Return(JNull) ELSE Throw(JError(msg, key))]

\* variant whose error does not say which key failed
Recover_Anonymous(key, failureMode, msg) ==
  IF failureMode = "clear"
  THEN LET removed == Primitive("removeItem", key, JNull) IN
       IF removed.out.kind = "throw" THEN Engine(removed.ev, <<>>, removed.out)
       ELSE Engine(removed.ev, logClearedInvalidItem(key), Return(JNull))
  ELSE Engine(<<>>, <<>>, Throw(JError(msg, "")))

\* failure policy shared by the parse and the validation branch
Recover(key, failureMode, msg) ==
  IF failureMode = "clear"
  THEN LET removed == Primitive("removeItem", key, JNull) IN
       IF removed.out.kind = "throw" THEN Engine(removed.ev, <<>>, removed.out)
       ELSE Engine(removed.ev, logClearedInvalidItem(key), Return(JNull))
  ELSE Engine(<<>>, <<>>, Throw(JError(msg, key)))

\* variants of the engine: the observer told of parse failures too, and the
\* observer told only after the recovery
parseAndValidateValue_ObserveParse(key, storedValue, failureMode, validationErrorCallback) ==
  IF KeyInSchemas(key)
  THEN LET parsed == JSONParse(storedValue.s)
           result == SafeParse(key, parsed.v)
       IN IF ~parsed.ok \/ ~result.success
          THEN LET r == Recover(key, failureMode, "Invalid JSON for key") IN
               Engine(CallObserver(validationErrorCallback, key, parsed.v) \o r.ev, r.post, r.out)
          ELSE Engine(<<>>, <<>>, Return(result.data))
  ELSE Engine(<<>>, <<>>, Return(storedValue))
parseAndValidateValue_ObserveLate(key, storedValue, failureMode, validationErrorCallback) ==
  IF KeyInSchemas(key)
  THEN LET parsed == JSONParse(storedValue.s) IN
       IF ~parsed.ok
       THEN Recover(key, failureMode, "Invalid JSON for key")
       ELSE LET result == SafeParse(key, parsed.v) IN
            IF ~result.success
            THEN LET r == Recover(key, failureMode, "Validation failed for key") IN
                 IF r.out.kind = "throw" THEN r
                 ELSE Engine(r.ev \o CallObserver(validationErrorCallback, key, parsed.v),
                             r.post, r.out)
            ELSE Engine(<<>>, <<>>, Return(result.data))
  ELSE Engine(<<>>, <<>>, Return(storedValue))

parseAndValidateValue(key, storedValue, failureMode, validationErrorCallback) ==
  IF KeyInSchemas(key)
  THEN LET parsed == JSONParse(storedValue.s) IN
       IF ~parsed.ok
       THEN Recover(key, failureMode, "Invalid JSON for key")
       ELSE IF ~HasSafeParse(key) THEN Engine(<<>>, <<>>, Throw(TypeError(key)))
       ELSE LET result == SafeParse(key, parsed.v) IN
            IF ~result.success
            THEN LET r == Recover(key, failureMode, "Validation failed for key") IN
                 Engine(CallObserver(validationErrorCallback, key, parsed.v) \o r.ev,
                        r.post, r.out)
            ELSE Engine(<<>>, <<>>, Return(result.data))
  ELSE Engine(<<>>, <<>>, Return(storedValue))


\* ------------------------------------------------------------ the facades
\* A call: the operation, its key (or key list), value, options and whether
\* a callback was passed (async only).
Call(op, k, keys, v, opts, cb) ==
  [op |-> op, k |-> k, keys |-> keys, v |-> v, opts |-> opts, cb |-> cb]
NoCall == Call("none", "", <<>>, JNull, NoOptions, FALSE)
Result(ev, out) == [ev |-> ev, out |-> out]

\* variants of the two option lookups: the global mode consulted first, and
\* the global observer dropped as soon as the call overrides the failure mode
FailureModeOf_GlobalFirst(opts) ==
  IF cfg.onFailure # Unset THEN cfg.onFailure
  ELSE IF opts.onFailure # Unset THEN opts.onFailure ELSE "clear"
ObserverOf_TiedToMode(opts) ==
  IF opts.onValidationError THEN "call"
  ELSE IF opts.onFailure # Unset THEN "none" ELSE onValidationError

\* variant in which a strict facade always throws
FailureModeOf_StrictThrows(opts) ==
  IF cfg.strict = "true" THEN "throw"
  ELSE IF opts.onFailure # Unset THEN opts.onFailure ELSE onFailure
\* `options?.onFailure ?? onFailure`
FailureModeOf(opts) == IF opts.onFailure # Unset THEN opts.onFailure ELSE onFailure
\* `options?.onValidationError ?? onValidationError`
ObserverOf(opts) == IF opts.onValidationError THEN "call" ELSE onValidationError

\* `callback?.(null, data)` and `callback?.(toError(error))`
CallbackOk(cb, key, data) == IF cb THEN <<Ev("callback.ok", key, data)>> ELSE <<>>
CallbackErr(cb, key, error) == IF cb THEN <<Ev("callback.err", key, toError(error))>> ELSE <<>>
\* variant that hands a batch callback the bare error
CallbackErrs_Bare(cb, key, error) ==
  IF cb THEN <<Ev("callback.err", key, toError(error))>> ELSE <<>>
\* `callback?.([toError(error)])`
CallbackErrs(cb, key, error) == IF cb THEN <<Ev("callback.errs", key, toError(error))>> ELSE <<>>

\* variant with the two branches exchanged
stringValue_Exchanged(key, value) ==
  IF KeyInSchemas(key) THEN value ELSE JStr(JSONStringify(value))

\* `key in schemas ? JSON.stringify(value) : (value as string)`
stringValue(key, value) == IF KeyInSchemas(key) THEN JStr(JSONStringify(value)) ELSE value

\* variant that never takes the early return
IsAbsent_Never(storedValue) == FALSE

\* `if (storedValue === null)`
IsAbsent(storedValue) == storedValue.t = "null"

\* `catch (error) { throw toError(error); }`
SyncCatch(r) ==
  IF r.out.kind = "throw" THEN Result(r.ev, Throw(toError(r.out.v))) ELSE Result(r.ev, r.out)
\* `callback?.(null); } catch (error) { callback?.(toError(error)); throw error; }`
AsyncCatch(r, cb, key) ==
  IF r.out.kind = "throw" THEN Result(r.ev \o CallbackErr(cb, key, r.out.v), r.out)
  ELSE Result(r.ev \o CallbackOk(cb, key, JNull), r.out)
\* `callback?.(null); } catch (error) { callback?.([toError(error)]); throw error; }`
AsyncCatchBatch(r, cb) ==
  IF r.out.kind = "throw" THEN Result(r.ev \o CallbackErrs(cb, "", r.out.v), r.out)
  ELSE Result(r.ev \o CallbackOk(cb, "", JNull), r.out)
\* `const stringValue = ...` raising inside the try block
SerializationFails(key, value) == KeyInSchemas(key) /\ StringifyThrows(value)
Raised(error) == [ev |-> <<>>, out |-> Throw(error)]

\* LocalStorage.getItem(key, options)
SyncGetItem(st, key, opts) ==
  IF Fails("getItem") THEN SyncCatch(Primitive("getItem", key, JNull))
  ELSE
  LET storedValue == st[key]
      read == <<Ev("store.getItem", key, storedValue)>>
  IN IF IsAbsent(storedValue) THEN Result(read, Return(JNull))
     ELSE LET e == parseAndValidateValue(key, storedValue, FailureModeOf(opts), ObserverOf(opts))
          IN Result(read \o e.ev \o e.post,
                    IF e.out.kind = "throw" THEN Throw(toError(e.out.v)) ELSE e.out)

\* LocalStorage.setItem(key, value)
SyncSetItem(st, key, value) ==
  IF SerializationFails(key, value) THEN SyncCatch(Raised(CircularError))
  ELSE SyncCatch(Primitive("setItem", key, stringValue(key, value)))

\* LocalStorage.removeItem(key)
SyncRemoveItem(st, key) == SyncCatch(Primitive("removeItem", key, JNull))

\* LocalStorage.clear()
SyncClear(st) == SyncCatch(Primitive("clear", "", JNull))

Digits == <<"0", "1", "2", "3", "4">>
\* the keys the store holds, in the store's order
KeyOrder == <<"user", "lastSeen", "token", "toString">>
Held(st) == LET held(k) == st[k].t # "null" IN SelectSeq(KeyOrder, held)

\* LocalStorage.key(index): index counts from 0
SyncKey(st, index) ==
  IF Fails("key") THEN SyncCatch(Primitive("key", "", JNull))
  ELSE LET name == IF index < Len(Held(st)) THEN JStr(<<Held(st)[index + 1]>>) ELSE JNull
       IN Result(<<Ev("store.key", "", name)>>, Return(name))

\* LocalStorage.length
SyncLength(st) ==
  IF Fails("length") THEN SyncCatch(Primitive("length", "", JNull))
  ELSE LET n == JNum(Digits[Len(Held(st)) + 1])
       IN Result(<<Ev("store.length", "", n)>>, Return(n))

\* variant whose early return forgets the callback
AsyncGetItem_SilentAbsent(st, key, opts, cb) ==
  LET storedValue == st[key]
      read == <<Ev("store.getItem", key, storedValue)>>
  IN IF IsAbsent(storedValue) THEN Result(read, Return(JNull))
     ELSE LET e == parseAndValidateValue(key, storedValue, FailureModeOf(opts), ObserverOf(opts))
          IN IF e.out.kind = "throw"
             THEN Result(read \o e.ev \o e.post \o CallbackErr(cb, key, e.out.v), e.out)
             ELSE Result(read \o e.ev \o e.post \o CallbackOk(cb, key, e.out.v), e.out)

\* variant that answers a repeated getItem from what the last one returned
AsyncGetItem_Cached(st, key, opts, cb) ==
  IF last.call.op = "getItem" /\ last.call.k = key /\ last.out.kind = "return"
  THEN Result(CallbackOk(cb, key, last.out.v), last.out)
  ELSE
  IF Fails("getItem") THEN
    LET r == Primitive("getItem", key, JNull)
    IN Result(r.ev \o CallbackErr(cb, key, r.out.v), r.out)
  ELSE
  LET storedValue == st[key]
      read == <<Ev("store.getItem", key, storedValue)>>
  IN IF IsAbsent(storedValue) THEN Result(read \o CallbackOk(cb, key, JNull), Return(JNull))
     ELSE LET e == parseAndValidateValue(key, storedValue, FailureModeOf(opts), ObserverOf(opts))
          IN IF e.out.kind = "throw"
             THEN Result(read \o e.ev \o e.post \o CallbackErr(cb, key, e.out.v), e.out)
             ELSE Result(read \o e.ev \o e.post \o CallbackOk(cb, key, e.out.v), e.out)

\* AsyncStorage.getItem(key, options, callback)
AsyncGetItem(st, key, opts, cb) ==
  IF Fails("getItem") THEN
    LET r == Primitive("getItem", key, JNull)
    IN Result(r.ev \o CallbackErr(cb, key, r.out.v), r.out)
  ELSE
  LET storedValue == st[key]
      read == <<Ev("store.getItem", key, storedValue)>>
  IN IF IsAbsent(storedValue) THEN Result(read \o CallbackOk(cb, key, JNull), Return(JNull))
     ELSE LET e == parseAndValidateValue(key, storedValue, FailureModeOf(opts), ObserverOf(opts))
          IN IF e.out.kind = "throw"
             THEN Result(read \o e.ev \o e.post \o CallbackErr(cb, key, e.out.v), e.out)
             ELSE Result(read \o e.ev \o e.post \o CallbackOk(cb, key, e.out.v), e.out)

\* AsyncStorage.setItem(key, value, callback)
AsyncSetItem(st, key, value, cb) ==
  IF SerializationFails(key, value) THEN AsyncCatch(Raised(CircularError), cb, key)
  ELSE AsyncCatch(Primitive("setItem", key, stringValue(key, value)), cb, key)

\* AsyncStorage.removeItem(key, callback)
AsyncRemoveItem(st, key, cb) == AsyncCatch(Primitive("removeItem", key, JNull), cb, key)

\* AsyncStorage.clear(callback)
AsyncClear(st, cb) == AsyncCatch(Primitive("clear", "", JNull), cb, "")

\* AsyncStorage.getAllKeys(callback)
AsyncGetAllKeys(st, cb) ==
  IF Fails("getAllKeys") THEN AsyncCatch(Primitive("getAllKeys", "", JNull), cb, "")
  ELSE LET keys == JArray([i \in 1..Len(Held(st)) |-> Member(<<Held(st)[i]>>, JNull)])
       IN Result(<<Ev("store.getAllKeys", "", keys)>> \o CallbackOk(cb, "", keys), Return(keys))

\* AsyncStorage.mergeItem(key, value, callback)
AsyncMergeItem(st, key, value, cb) ==
  IF SerializationFails(key, value) THEN AsyncCatch(Raised(CircularError), cb, key)
  ELSE AsyncCatch(Primitive("mergeItem", key, stringValue(key, value)), cb, key)

\* `keyValuePairs.map(([key, value]) => [key, stringValue])`, run before the
\* try block is entered
stringifiedPairs(keyValuePairs) ==
  JArray([i \in 1..Len(keyValuePairs) |->
            Member(<<keyValuePairs[i].key>>,
                   stringValue(keyValuePairs[i].key, keyValuePairs[i].value))])
MapRaises(keyValuePairs) ==
  \E i \in 1..Len(keyValuePairs) :
    SerializationFails(keyValuePairs[i].key, keyValuePairs[i].value)

\* AsyncStorage.multiSet(keyValuePairs, callback)
AsyncMultiSet(st, keyValuePairs, cb) ==
  IF MapRaises(keyValuePairs) THEN Result(<<>>, Throw(CircularError))
  ELSE AsyncCatchBatch(Primitive("multiSet", "", stringifiedPairs(keyValuePairs)), cb)

\* AsyncStorage.multiMerge(keyValuePairs, callback)
AsyncMultiMerge(st, keyValuePairs, cb) ==
  IF MapRaises(keyValuePairs) THEN Result(<<>>, Throw(CircularError))
  ELSE AsyncCatchBatch(Primitive("multiMerge", "", stringifiedPairs(keyValuePairs)), cb)

\* AsyncStorage.multiRemove(keys, callback)
AsyncMultiRemove(st, keys, cb) ==
  AsyncCatchBatch(Primitive("multiRemove", "",
                            JArray([i \in 1..Len(keys) |-> Member(<<keys[i]>>, JNull)])), cb)

\* ------------------------------------------------------- key-scoped views
\* useLocalStorage(key): `getItem: (options) => storage.getItem(key, options)`, ...
useLocalStorage_getItem(st, key, options) == SyncGetItem(st, key, options)
useLocalStorage_setItem(st, key, value) == SyncSetItem(st, key, value)
useLocalStorage_removeItem(st, key) == SyncRemoveItem(st, key)

\* variant of the async view that forwards the callback but not the options
useAsyncStorage_getItem_NoOptions(st, key, options, callback) ==
  AsyncGetItem(st, key, NoOptions, callback)

\* useAsyncStorage(key): `getItem: (options, callback) => storage.getItem(key, options, callback)`, ...
useAsyncStorage_getItem(st, key, options, callback) == AsyncGetItem(st, key, options, callback)
useAsyncStorage_setItem(st, key, value, callback) == AsyncSetItem(st, key, value, callback)
useAsyncStorage_mergeItem(st, key, value, callback) == AsyncMergeItem(st, key, value, callback)
useAsyncStorage_removeItem(st, key, callback) == AsyncRemoveItem(st, key, callback)

\* ---------------------------------------------------------------- multiGet
\* The store answers multiGet(keys) with one [key, value] pair per key, in an
\* order of its own: results[i] is the pair of keys[order[i]].
Orders(n) == {p \in [1..n -> 1..n] : \A i, j \in 1..n : p[i] = p[j] => i = j}
StoreMultiGet(st, keys, order) ==
  [i \in 1..Len(keys) |-> [key |-> keys[order[i]], value |-> st[keys[order[i]]]]]


\* the key paired with item `index` of the answer: `[keys[index], data]`
PairKey(keys, results, index) == keys[index]

\* the async map callback on results[index], up to its first pending await
MapItem(results, index, opts) ==
  IF IsAbsent(results[index].value) THEN Engine(<<>>, <<>>, Return(JNull))
  ELSE parseAndValidateValue(results[index].key, results[index].value,
                             FailureModeOf(opts), ObserverOf(opts))

RECURSIVE ConcatAll(_)
ConcatAll(seqs) == IF seqs = <<>> THEN <<>> ELSE Head(seqs) \o ConcatAll(Tail(seqs))

\* `results.map(async ([key, value], index) => ...)`: the item outcomes in index order
RECURSIVE MapItems(_, _, _)
MapItems(results, opts, index) ==
  IF index > Len(results) THEN <<>>
  ELSE <<MapItem(results, index, opts)>> \o MapItems(results, opts, index + 1)

\* variant that settles every item and reports a failing one as null
PromiseAll_Settled(keys, results, items, cb) ==
  LET n == Len(items)
      evs == <<Ev("store.multiGet", "", JArray([i \in 1..n |->
                                           Member(<<results[i].key>>, results[i].value)]))>>
             \o ConcatAll([i \in 1..n |-> items[i].ev])
             \o ConcatAll([i \in 1..n |-> items[i].post])
      mapped == JArray([i \in 1..n |->
                  Member(<<PairKey(keys, results, i)>>,
                         IF items[i].out.kind = "throw" THEN JNull ELSE items[i].out.v)])
  IN Result(evs \o CallbackOk(cb, "", mapped), Return(mapped))

\* `await Promise.all(...)` and what follows it.  Every item runs up to its
\* await while `results.map` iterates, so the observers and the removes of all
\* items come first, in index order, and the logs after them; Promise.all
\* rejects with the failure of the lowest failing index.
PromiseAll(keys, results, items, cb) ==
  LET n == Len(items)
      threw == {i \in 1..n : items[i].out.kind = "throw"}
      \* an item that throws before its first await rejects while the map
      \* still runs, ahead of an item whose awaited remove is rejected
      early == {i \in threw : items[i].ev = <<>> \/ items[i].ev[Len(items[i].ev)].e # "fail.removeItem"}
      failed == IF early # {} THEN early ELSE threw
      evs == <<Ev("store.multiGet", "", JArray([i \in 1..n |->
                                           Member(<<results[i].key>>, results[i].value)]))>>
             \o ConcatAll([i \in 1..n |-> items[i].ev])
             \o ConcatAll([i \in 1..n |-> items[i].post])
  IN IF failed # {}
     THEN LET first == CHOOSE i \in failed : \A j \in failed : i <= j
          IN Result(evs \o CallbackErrs(cb, "", items[first].out.v), items[first].out)
     ELSE LET mapped == JArray([i \in 1..n |->
                           Member(<<PairKey(keys, results, i)>>, items[i].out.v)])
          IN Result(evs \o CallbackOk(cb, "", mapped), Return(mapped))

\* AsyncStorage.multiGet(keys, options, callback)
AsyncMultiGet(st, keys, opts, cb, order) ==
  IF Fails("multiGet")
  THEN AsyncCatchBatch(Primitive("multiGet", "",
                                 JArray([i \in 1..Len(keys) |-> Member(<<keys[i]>>, JNull)])), cb)
  ELSE
  LET results == StoreMultiGet(st, keys, order)
  IN PromiseAll(keys, results, CHOOSE items \in {MapItems(results, opts, 1)} : TRUE, cb)

\* key lists of multiGet: no key twice, at most MaxBatch keys
KeyLists(keys) == UNION {{ks \in [1..n -> keys] : \A i, j \in 1..n : ks[i] = ks[j] => i = j}
                         : n \in 1..MaxBatch}

\* ------------------------------------------------------------ transitions
Absent == [k \in AllKeys |-> JNull]
NoRecord == [call |-> NoCall, ev |-> <<>>, out |-> Return(JUndefined)]

\* Calls of the async facade in flight.  A call is `called` until the store
\* answers its first request, then `awaiting` the removes its recovery issued,
\* then `settled`.  then is the continuation waiting for the answer: what the
\* call does on each answer the store can give; res is what it does on the
\* answer it got, pending the removes not yet served, deleted what the served
\* ones found in the store.
Callers == {"a", "b"}

Init ==
  /\ variant \in {"sync", "async"}
  /\ cfg \in GlobalOptions
  /\ cfg.strict = Unset
  /\ store = Absent
  /\ last = NoRecord
  /\ prev = NoRecord
  /\ fault = NoFault
  /\ tasks = [t \in Callers |->
                [pc |-> "idle", call |-> NoCall, then |-> <<>>,
                 res |-> Result(<<>>, Return(JUndefined)), pending |-> {}, deleted |-> {}]]

\* Calls are observed one at a time, or two in a row when both are calls on
\* one key and the first one reached the store: prev is then the first and
\* last the second, with nothing on that key in between.
ReachedStore(ev) == \E i \in 1..Len(ev) : SubSeq(ev[i].e, 1, 6) = "store."
Observable(key) ==
  \/ last = NoRecord
  \/ fault = NoFault /\ key # "" /\ last.call.k = key /\ ReachedStore(last.ev)
\* A failing primitive is observed in the calls that invoke it: any other call
\* runs as it does on a healthy store.
MeetsFault(ev) == fault = NoFault \/ \E i \in 1..Len(ev) : ev[i].e = "fail." \o fault.p

CallbackError == JError("callback failed", "")
\* `callback?.(null, data)` inside the try block and `callback?.(toError(error));
\* throw error` in its catch, with a callback that raises whenever it is
\* invoked: a raise in the try block is caught and the callback is invoked
\* again, with that error; a raise in the catch block leaves the operation.
Invoked(call, res) ==
  LET n == Len(res.ev)
      raised == <<Ev("fail.callback", call.k, CallbackError)>>
      again == IF call.op \in {"multiGet", "multiSet", "multiRemove", "multiMerge"} THEN CallbackErrs(TRUE, call.k, CallbackError)
               ELSE CallbackErr(TRUE, call.k, CallbackError)
  IN IF ~Fails("callback") \/ ~call.cb \/ n = 0 THEN res
     ELSE IF res.ev[n].e = "callback.ok"
          THEN Result(res.ev \o raised \o again \o raised, Throw(CallbackError))
     ELSE IF res.ev[n].e \in {"callback.err", "callback.errs"}
          THEN Result(res.ev \o raised, Throw(CallbackError))
     ELSE res

\* a facade call runs to completion: its events reach the store in order
Do(call, res) ==
  /\ Observable(call.k)
  /\ MeetsFault(Invoked(call, res).ev)
  /\ prev' = last
  /\ last' = [call |-> call, ev |-> Invoked(call, res).ev, out |-> Invoked(call, res).out]
  /\ store' = StoreAfter(store, res.ev)
  /\ UNCHANGED <<variant, cfg, fault, tasks>>

\* the sync facade, called with keys of `keys`
LocalGetItem(keys) ==
  /\ variant = "sync" /\ prev = NoRecord
  /\ \E key \in keys, opts \in GetItemOptions :
       Do(Call("getItem", key, <<>>, JNull, opts, FALSE), SyncGetItem(store, key, opts))
LocalSetItem(keys) ==
  /\ variant = "sync" /\ prev = NoRecord
  /\ \E key \in keys : \E value \in SetValues(key) :
       Do(Call("setItem", key, <<>>, value, NoOptions, FALSE), SyncSetItem(store, key, value))
LocalRemoveItem(keys) ==
  /\ variant = "sync" /\ prev = NoRecord
  /\ \E key \in keys :
       Do(Call("removeItem", key, <<>>, JNull, NoOptions, FALSE), SyncRemoveItem(store, key))
LocalClear ==
  /\ variant = "sync" /\ prev = NoRecord
  /\ Do(Call("clear", "", <<>>, JNull, NoOptions, FALSE), SyncClear(store))

\* the async facade, called with keys of `keys`, with or without a callback
GetItem(keys) ==
  /\ variant = "async" /\ prev = NoRecord
  /\ \E key \in keys, opts \in GetItemOptions, cb \in BOOLEAN :
       Do(Call("getItem", key, <<>>, JNull, opts, cb), AsyncGetItem(store, key, opts, cb))
SetItem(keys) ==
  /\ variant = "async" /\ prev = NoRecord
  /\ \E key \in keys, cb \in BOOLEAN : \E value \in SetValues(key) :
       Do(Call("setItem", key, <<>>, value, NoOptions, cb), AsyncSetItem(store, key, value, cb))
RemoveItem(keys) ==
  /\ variant = "async" /\ prev = NoRecord
  /\ \E key \in keys, cb \in BOOLEAN :
       Do(Call("removeItem", key, <<>>, JNull, NoOptions, cb), AsyncRemoveItem(store, key, cb))
Clear ==
  /\ variant = "async" /\ prev = NoRecord
  /\ \E cb \in BOOLEAN :
       Do(Call("clear", "", <<>>, JNull, NoOptions, cb), AsyncClear(store, cb))
MultiGet(keys) ==
  /\ variant = "async" /\ prev = NoRecord /\ last = NoRecord
  /\ \E ks \in KeyLists(keys), opts \in GetItemOptions, cb \in BOOLEAN :
       \E order \in Orders(Len(ks)) :
         Do(Call("multiGet", "", ks, JNull, opts, cb), AsyncMultiGet(store, ks, opts, cb, order))

\* key/value pair lists of multiSet and multiMerge: no key twice, at most MaxBatch pairs
ValueLists(ks) ==
  {vs \in [1..Len(ks) -> UNION {SetValues(k) : k \in AllKeys}] :
     \A i \in 1..Len(ks) : vs[i] \in SetValues(ks[i])}
PairLists(keys) ==
  UNION {{[i \in 1..Len(ks) |-> [key |-> ks[i], value |-> vs[i]]] : vs \in ValueLists(ks)}
           : ks \in KeyLists(keys)}
PairsOf(keyValuePairs) ==
  JArray([i \in 1..Len(keyValuePairs) |->
            Member(<<keyValuePairs[i].key>>, keyValuePairs[i].value)])
KeysOf(keyValuePairs) == [i \in 1..Len(keyValuePairs) |-> keyValuePairs[i].key]

\* the remaining operations of the sync facade
LocalKey ==
  /\ variant = "sync" /\ last = NoRecord
  /\ \E index \in 0..1 :
       Do(Call("key", "", <<>>, JNum(Digits[index + 1]), NoOptions, FALSE), SyncKey(store, index))
LocalLength ==
  /\ variant = "sync" /\ last = NoRecord
  /\ Do(Call("length", "", <<>>, JNull, NoOptions, FALSE), SyncLength(store))

\* the remaining operations of the async facade
GetAllKeys ==
  /\ variant = "async" /\ last = NoRecord
  /\ \E cb \in BOOLEAN :
       Do(Call("getAllKeys", "", <<>>, JNull, NoOptions, cb), AsyncGetAllKeys(store, cb))
MergeItem(keys) ==
  /\ variant = "async" /\ last = NoRecord
  /\ \E key \in keys, cb \in BOOLEAN : \E value \in SetValues(key) :
       Do(Call("mergeItem", key, <<>>, value, NoOptions, cb), AsyncMergeItem(store, key, value, cb))
MultiSet(keys) ==
  /\ variant = "async" /\ last = NoRecord
  /\ \E pairs \in PairLists(keys), cb \in BOOLEAN :
       Do(Call("multiSet", "", KeysOf(pairs), PairsOf(pairs), NoOptions, cb),
          AsyncMultiSet(store, pairs, cb))
MultiMerge(keys) ==
  /\ variant = "async" /\ last = NoRecord
  /\ \E pairs \in PairLists(keys), cb \in BOOLEAN :
       Do(Call("multiMerge", "", KeysOf(pairs), PairsOf(pairs), NoOptions, cb),
          AsyncMultiMerge(store, pairs, cb))
MultiRemove(keys) ==
  /\ variant = "async" /\ last = NoRecord
  /\ \E ks \in KeyLists(keys), cb \in BOOLEAN :
       Do(Call("multiRemove", "", ks, JNull, NoOptions, cb), AsyncMultiRemove(store, ks, cb))

\* the operations of the view bound to a key of `keys`
ViewGetItem(keys) ==
  /\ prev = NoRecord
  /\ \E key \in keys, opts \in GetItemOptions, cb \in BOOLEAN :
       /\ variant = "sync" => ~cb
       /\ Do(Call("view.getItem", key, <<>>, JNull, opts, cb),
             IF variant = "sync" THEN useLocalStorage_getItem(store, key, opts)
             ELSE useAsyncStorage_getItem(store, key, opts, cb))
ViewSetItem(keys) ==
  /\ prev = NoRecord
  /\ \E key \in keys, cb \in BOOLEAN : \E value \in SetValues(key) :
       /\ variant = "sync" => ~cb
       /\ Do(Call("view.setItem", key, <<>>, value, NoOptions, cb),
             IF variant = "sync" THEN useLocalStorage_setItem(store, key, value)
             ELSE useAsyncStorage_setItem(store, key, value, cb))
ViewRemoveItem(keys) ==
  /\ prev = NoRecord
  /\ \E key \in keys, cb \in BOOLEAN :
       /\ variant = "sync" => ~cb
       /\ Do(Call("view.removeItem", key, <<>>, JNull, NoOptions, cb),
             IF variant = "sync" THEN useLocalStorage_removeItem(store, key)
             ELSE useAsyncStorage_removeItem(store, key, cb))
ViewMergeItem(keys) ==
  /\ variant = "async" /\ last = NoRecord
  /\ \E key \in keys, cb \in BOOLEAN : \E value \in SetValues(key) :
       Do(Call("view.mergeItem", key, <<>>, value, NoOptions, cb),
          useAsyncStorage_mergeItem(store, key, value, cb))

\* everything a facade can be asked, on the store as it is
EveryCall ==
  <<[key \in AllKeys |-> [opts \in GetItemOptions |-> SyncGetItem(store, key, opts)]],
    [key \in AllKeys |-> [value \in SetValues(key) |-> SyncSetItem(store, key, value)]],
    [key \in AllKeys |-> SyncRemoveItem(store, key)],
    SyncClear(store),
    [key \in AllKeys |-> [opts \in GetItemOptions |-> AsyncGetItem(store, key, opts, TRUE)]],
    [key \in AllKeys |-> [value \in SetValues(key) |-> AsyncSetItem(store, key, value, TRUE)]],
    [key \in AllKeys |-> [value \in SetValues(key) |-> AsyncMergeItem(store, key, value, TRUE)]],
    [key \in AllKeys |-> AsyncRemoveItem(store, key, TRUE)],
    [keys \in KeyLists(AllKeys) |-> [opts \in GetItemOptions |->
       AsyncMultiGet(store, keys, opts, TRUE, [i \in 1..Len(keys) |-> i])]],
    AsyncGetAllKeys(store, TRUE)>>

Snapshot(answers) == [t |-> "snapshot", s |-> EmptyText, f |-> answers]
\* Another facade is built from the same Registry and the same options but
\* for the strict flag, over the same store, and takes the place of this one;
\* the record keeps what the replaced facade answers to every call.
Rebuild ==
  /\ last = NoRecord /\ fault = NoFault
  /\ \E strict \in StrictFlags \ {cfg.strict} : cfg' = [cfg EXCEPT !.strict = strict]
  /\ last' = [call |-> Call("rebuild", "", <<>>, JNull, NoOptions, FALSE),
              ev |-> <<>>, out |-> Return(Snapshot(EveryCall))]
  /\ UNCHANGED <<variant, store, prev, fault, tasks>>

\* the store starts to fail: primitive p throws e whenever it is invoked
StoreFails ==
  /\ last = NoRecord /\ fault = NoFault
  /\ \E p \in Primitives(variant), e \in Thrown : fault' = [p |-> p, e |-> e]
  /\ UNCHANGED <<variant, cfg, store, last, prev, tasks>>

\* variant that waits again for the request already answered
Awaited_Again(res) == {i \in 1..Len(res.ev) : SubSeq(res.ev[i].e, 1, 6) = "store."}
\* `await AsyncStorageImpl.removeItem(key)` in the engine: the requests a call
\* has issued and not seen answered once its first request is answered
Awaited(res) == {i \in 2..Len(res.ev) : res.ev[i].e = "store.removeItem"}
\* variant that settles as soon as one awaited request is answered
AllSettled_Any(res, pending) == pending = {} \/ pending # Awaited(res)
\* `await Promise.all(...)`, `await parseAndValidateValue(...)`: the call goes
\* on when every request it awaits is answered
AllSettled(res, pending) == pending = {}

\* The answers the store can give to the first request of a call: for the
\* reads, the entries of the keys asked for (absent, text of another writer,
\* text a setItem wrote) and the order of the pairs; for setItem, nothing.
Answers(call) ==
  LET asked == IF call.op = "getItem" THEN {call.k}
               ELSE {call.keys[i] : i \in 1..Len(call.keys)}
      texts == {JStr(text) : text \in ExternalTexts}
               \cup {stringValue(key, value) : key \in SchemaKeys, value \in {UserA, BadUser, Seen}}
  IN {[st |-> [key \in AllKeys |-> IF key \in asked THEN held[key] ELSE JNull], order |-> order]
        : held \in [asked -> {JNull} \cup texts], order \in Orders(Len(call.keys))}
\* a caller calls one of the operations `ops` (getItem, setItem, multiGet);
\* the request goes to the store
TaskCall(t, ops) ==
  /\ variant = "async" /\ last = NoRecord /\ tasks[t].pc = "idle"
  /\ \E cb \in {TRUE} :
       \E call \in {Call("getItem", key, <<>>, JNull, NoOptions, cb) : key \in SchemaKeys}
             \cup UNION {{Call("setItem", key, <<>>, value, NoOptions, cb)
                            : value \in SetValues(key) \cap {UserA, BadUser, Seen}}
                          : key \in SchemaKeys}
             \cup {Call("multiGet", "", ks, JNull, NoOptions, cb) : ks \in KeyLists(SchemaKeys)} :
         \* the code after `await AsyncStorageImpl.<first request>`, given the answer
         LET continue(answer) ==
               CASE call.op = "getItem"  ->
                      AsyncGetItem(answer.st, call.k, call.opts, call.cb)
                 [] call.op = "setItem"  ->
                      AsyncSetItem(answer.st, call.k, call.v, call.cb)
                 [] call.op = "multiGet" ->
                      AsyncMultiGet(answer.st, call.keys, call.opts, call.cb, answer.order)
         IN /\ call.op \in ops
            /\ tasks' = [tasks EXCEPT ![t] =
                           [@ EXCEPT !.pc = "called", !.call = call,
                                     !.then = [answer \in Answers(call) |-> continue(answer)]]]
  /\ UNCHANGED <<variant, cfg, store, last, prev, fault>>

\* the store answers the first request of a call: the read of getItem and
\* multiGet, the write of setItem; the call runs on to its next await
TaskServe(t) ==
  /\ tasks[t].pc = "called"
  /\ LET c == tasks[t].call IN
     \E order \in Orders(Len(c.keys)) :
       LET asked == IF c.op = "getItem" THEN {c.k} ELSE {c.keys[i] : i \in 1..Len(c.keys)}
           \* the store's answer, as the call sees it
           seen == [key \in AllKeys |-> IF key \in asked THEN store[key] ELSE JNull]
           res == tasks[t].then[[st |-> seen, order |-> order]]
       IN /\ tasks' = [tasks EXCEPT ![t] = [@ EXCEPT !.pc = "awaiting", !.then = <<>>,
                                                      !.res = res, !.pending = Awaited(res)]]
          /\ store' = IF c.op = "setItem" THEN StoreAfter(store, res.ev) ELSE store
  /\ UNCHANGED <<variant, cfg, last, prev, fault>>

\* the store serves one of the removes a call awaits, in any order
TaskRemove(t) ==
  /\ tasks[t].pc = "awaiting"
  /\ \E i \in tasks[t].pending :
       LET key == tasks[t].res.ev[i].k IN
       /\ tasks[t].res.ev[i].e = "store.removeItem"
       /\ store' = [store EXCEPT ![key] = JNull]
       /\ tasks' = [tasks EXCEPT ![t] =
                      [@ EXCEPT !.pending = @ \ {i},
                                !.deleted = @ \cup {[k |-> key, v |-> store[key]]}]]
  /\ UNCHANGED <<variant, cfg, last, prev, fault>>

\* the call delivers its callback and its promise settles
TaskSettle(t) ==
  /\ tasks[t].pc = "awaiting"
  /\ AllSettled(tasks[t].res, tasks[t].pending)
  /\ tasks' = [tasks EXCEPT ![t] = [@ EXCEPT !.pc = "settled"]]
  /\ UNCHANGED <<variant, cfg, store, last, prev, fault>>

\* the caller starts passing a callback that raises whenever it is invoked
CallbackFails ==
  /\ variant = "async" /\ last = NoRecord /\ fault = NoFault
  /\ fault' = [p |-> "callback", e |-> CallbackError]
  /\ UNCHANGED <<variant, cfg, store, last, prev, tasks>>

\* another writer of the same store leaves text of its own under a key
ExternalWrite(keys) ==
  /\ last = NoRecord
  /\ \E key \in keys, text \in ExternalTexts : store' = [store EXCEPT ![key] = JStr(text)]
  /\ UNCHANGED <<variant, cfg, last, prev, fault, tasks>>

\* The facade keeps nothing of a finished call (no cache, no state beyond the
\* closed-over schemas and options): the record of the outcome is dropped
\* before the next call is observed.
Settle ==
  /\ last # NoRecord
  /\ last' = NoRecord
  /\ prev' = NoRecord
  /\ fault' = NoFault
  /\ UNCHANGED <<variant, cfg, store, tasks>>

\* Spec: an application calling with the keys it knows
Next ==
  \/ LocalGetItem(AppKeys)
  \/ LocalSetItem(AppKeys)
  \/ LocalRemoveItem(AppKeys)
  \/ LocalClear
  \/ GetItem(AppKeys)
  \/ SetItem(AppKeys)
  \/ RemoveItem(AppKeys)
  \/ Clear
  \/ MultiGet(AppKeys)
  \/ ExternalWrite(AppKeys)
  \/ Settle
Spec == Init /\ [][Next]_vars

\* SpecLoose: a loosely typed caller passing keys outside the Registry
NextLoose ==
  \/ LocalGetItem(LooseKeys)
  \/ LocalSetItem(LooseKeys)
  \/ LocalRemoveItem(LooseKeys)
  \/ GetItem(LooseKeys)
  \/ SetItem(LooseKeys)
  \/ RemoveItem(LooseKeys)
  \/ ExternalWrite(LooseKeys)
  \/ Settle
SpecLoose == Init /\ [][NextLoose]_vars

\* SpecView: an application that goes through key-scoped views
ViewKeys == {"user", "token"}
NextView ==
  \/ ViewGetItem(ViewKeys)
  \/ ViewSetItem(ViewKeys)
  \/ ViewRemoveItem(ViewKeys)
  \/ ViewMergeItem(ViewKeys)
  \/ ExternalWrite(ViewKeys)
  \/ Settle
SpecView == Init /\ [][NextView]_vars

\* SpecStrict: facades that differ in the strict flag only, one after the other
StrictKeys == {"user", "token"}
NextStrict ==
  \/ LocalGetItem(StrictKeys)
  \/ LocalSetItem({"user"})
  \/ GetItem(StrictKeys)
  \/ SetItem({"user"})
  \/ ExternalWrite(InheritedKeys \cup StrictKeys)
  \/ Rebuild
  \/ Settle
SpecStrict == Init /\ [][NextStrict]_vars

\* SpecStore: every operation of both facades, over a store that may fail
StoreKeys == {"user", "token"}
NextStore ==
  \/ LocalGetItem(StoreKeys)
  \/ LocalSetItem(StoreKeys)
  \/ LocalRemoveItem(StoreKeys)
  \/ LocalClear
  \/ LocalKey
  \/ LocalLength
  \/ GetItem(StoreKeys)
  \/ SetItem(StoreKeys)
  \/ RemoveItem(StoreKeys)
  \/ Clear
  \/ GetAllKeys
  \/ MergeItem(StoreKeys)
  \/ MultiGet(StoreKeys)
  \/ MultiSet(StoreKeys)
  \/ MultiMerge(StoreKeys)
  \/ MultiRemove(StoreKeys)
  \/ ExternalWrite(StoreKeys)
  \/ StoreFails
  \/ Settle
SpecStore == Init /\ [][NextStore]_vars

\* SpecCallback: the async facade called with callbacks, some of which raise,
\* over a store that may fail
NextCallback ==
  \/ GetItem(StoreKeys)
  \/ SetItem(StoreKeys)
  \/ RemoveItem(StoreKeys)
  \/ Clear
  \/ GetAllKeys
  \/ MergeItem(StoreKeys)
  \/ MultiGet(StoreKeys)
  \/ MultiRemove(StoreKeys)
  \/ ExternalWrite(StoreKeys)
  \/ StoreFails
  \/ CallbackFails
  \/ Settle
SpecCallback == Init /\ [][NextCallback]_vars

\* SpecTasks: two callers of the async facade with calls in flight at once on
\* a store another writer has left text in
NextTasks ==
  \/ \E t \in Callers : TaskCall(t, {"getItem", "setItem", "multiGet"})
  \/ \E t \in Callers : TaskServe(t)
  \/ \E t \in Callers : TaskRemove(t)
  \/ \E t \in Callers : TaskSettle(t)
  \/ (\A t \in Callers : tasks[t].pc = "idle") /\ ExternalWrite(SchemaKeys)
SpecTasks == Init /\ [][NextTasks]_vars

\* FairTasks: a reader and a writer of the async facade; the store answers
\* every request and the event loop runs every continuation
NextFair ==
  \/ TaskCall("a", {"getItem", "multiGet"})
  \/ TaskCall("b", {"setItem"})
  \/ \E t \in Callers : TaskServe(t)
  \/ \E t \in Callers : TaskRemove(t)
  \/ \E t \in Callers : TaskSettle(t)
  \/ (\A t \in Callers : tasks[t].pc = "idle") /\ ExternalWrite(SchemaKeys)
FairTasks ==
  /\ Init
  /\ [][NextFair]_vars
  /\ \A t \in Callers :
       WF_vars(TaskServe(t)) /\ WF_vars(TaskRemove(t)) /\ WF_vars(TaskSettle(t))

\* ================================================================ claims
\* The precedence the claims state, written out on its own: the per-call
\* onFailure when supplied, otherwise the global one, otherwise "clear".
ClaimMode(opts) ==
  IF opts.onFailure \in FailureModes THEN opts.onFailure
  ELSE IF cfg.onFailure \in FailureModes THEN cfg.onFailure
  ELSE "clear"
\* the observer the claims state: the per-call one when supplied, else the global one
ClaimObserver(opts) ==
  IF opts.onValidationError THEN "observer.call"
  ELSE IF cfg.onValidationError THEN "observer.global"
  ELSE "none"

ParseFails(raw) == raw.t = "str" /\ ~JSONParse(raw.s).ok
ValidationFails(key, raw) ==
  /\ raw.t = "str"
  /\ JSONParse(raw.s).ok
  /\ ~SafeParse(key, JSONParse(raw.s).v).success
Untrusted(key, raw) == ParseFails(raw) \/ ValidationFails(key, raw)

IsGetItem(rec) == rec.call.op = "getItem"
IsMultiGet(rec) == rec.call.op = "multiGet"
\* what the store answered to the read that opens a getItem or a multiGet
ReadOf(rec) == rec.ev[1].v
StoreWrites == {"store.setItem", "store.removeItem", "store.clear"}
Observers == {"observer.global", "observer.call"}
IsWrite(x) == x.e \in StoreWrites
IsObserver(x) == x.e \in Observers
WritesOf(rec) == SelectSeq(rec.ev, IsWrite)
ObserversOf(rec) == SelectSeq(rec.ev, IsObserver)
Positions(rec, e, key) == {i \in 1..Len(rec.ev) : rec.ev[i].e = e /\ rec.ev[i].k = key}

\* a getItem on a Registry key whose stored value cannot be trusted
UntrustedGet(rec) ==
  /\ IsGetItem(rec)
  /\ rec.call.k \in SchemaKeys
  /\ Untrusted(rec.call.k, ReadOf(rec))

\* C1: a getItem of a schema-bound key under effective mode "clear" whose
\* stored value is not JSON or fails the schema returns null, issues exactly
\* one store remove, for that key, and leaves the key absent (sync and async).
C1_ClearRecovery ==
  (UntrustedGet(last) /\ ClaimMode(last.call.opts) = "clear")
    => /\ last.out = Return(JNull)
       /\ WritesOf(last) = <<Ev("store.removeItem", last.call.k, JNull)>>
       /\ store[last.call.k] = JNull
C1_Witness ==
  /\ variant = "async"
  /\ UntrustedGet(last) /\ ClaimMode(last.call.opts) = "clear"
  /\ ValidationFails(last.call.k, ReadOf(last))
  /\ last.out = Return(JNull)
  /\ store[last.call.k] = JNull

\* C2: a getItem of a schema-bound key under effective mode "throw" whose
\* stored value is not JSON or fails the schema fails with an error, issues
\* no remove nor any other write, and the stored entry stays what was read.
C2_ThrowLeavesStore ==
  (UntrustedGet(last) /\ ClaimMode(last.call.opts) = "throw")
    => /\ last.out.kind = "throw"
       /\ last.out.v.t = "error"
       /\ WritesOf(last) = <<>>
       /\ store[last.call.k] = ReadOf(last)
C2_Witness ==
  /\ variant = "sync"
  /\ UntrustedGet(last) /\ ClaimMode(last.call.opts) = "throw"
  /\ ParseFails(ReadOf(last))
  /\ last.out.kind = "throw"
  /\ store[last.call.k] = JStr(CorruptText)

\* the value the store answered for `key` in the read that opens rec
AnswerFor(rec, key) ==
  IF IsGetItem(rec) THEN ReadOf(rec)
  ELSE LET pairs == ReadOf(rec).f
       IN pairs[CHOOSE i \in 1..Len(pairs) : pairs[i].n = <<key>>].v

\* C3: the onValidationError observer is invoked only for a schema-bound key
\* whose stored value parsed as JSON and then failed the schema, and it is
\* shown that parsed value; never for a parse failure, a valid value, an
\* absent entry or a key without a schema, under either failure mode.
C3_ObserverExclusive ==
  \A i \in 1..Len(last.ev) :
    IsObserver(last.ev[i]) =>
      /\ last.call.op \in {"getItem", "multiGet"}
      /\ last.ev[i].k \in SchemaKeys
      /\ ValidationFails(last.ev[i].k, AnswerFor(last, last.ev[i].k))
      /\ last.ev[i].v = JSONParse(AnswerFor(last, last.ev[i].k).s).v
C3_Witness ==
  /\ IsGetItem(last)
  /\ ClaimMode(last.call.opts) = "throw"
  /\ ValidationFails(last.call.k, ReadOf(last))
  /\ Len(ObserversOf(last)) = 1

\* C4: on a schema-validation failure with an observer configured, the
\* observer is invoked exactly once with (key, parsed value), before the store
\* remove is issued under "clear" and before the call fails under "throw".
C4_ObserverBeforeRecovery ==
  \A key \in SchemaKeys :
    ( /\ last.call.op \in {"getItem", "multiGet"}
      /\ key = last.call.k \/ \E i \in 1..Len(last.call.keys) : last.call.keys[i] = key
      /\ ValidationFails(key, AnswerFor(last, key))
      /\ ClaimObserver(last.call.opts) # "none" )
    => LET obs == Positions(last, ClaimObserver(last.call.opts), key)
           rem == Positions(last, "store.removeItem", key)
       IN /\ Cardinality(obs) = 1
          /\ \A i \in obs : last.ev[i].v = JSONParse(AnswerFor(last, key).s).v
          /\ IF ClaimMode(last.call.opts) = "clear"
             THEN Cardinality(rem) = 1 /\ \A i \in obs, j \in rem : i < j
             ELSE rem = {} /\ last.out.kind = "throw"
C4_Witness ==
  /\ IsGetItem(last)
  /\ last.call.k = "user"
  /\ ValidationFails("user", ReadOf(last))
  /\ ClaimMode(last.call.opts) = "clear"
  /\ Len(last.ev) >= 3
  /\ last.ev[2].e = "observer.global"
  /\ last.ev[3].e = "store.removeItem"
\* the schema keys whose answer in the read of rec cannot be trusted
UntrustedKeys(rec) ==
  {key \in SchemaKeys :
     /\ IF IsGetItem(rec) THEN key = rec.call.k
        ELSE \E i \in 1..Len(rec.call.keys) : rec.call.keys[i] = key
     /\ Untrusted(key, AnswerFor(rec, key))}
IsRead(rec) == IsGetItem(rec) \/ IsMultiGet(rec)
RemovedKeys(rec) == {rec.ev[i].k : i \in {j \in 1..Len(rec.ev) : rec.ev[j].e = "store.removeItem"}}

\* the outcome of every getItem and multiGet that meets an untrusted value
\* follows the stated precedence
FollowsClaimMode ==
  (IsRead(last) /\ UntrustedKeys(last) # {})
    => IF ClaimMode(last.call.opts) = "throw"
       THEN last.out.kind = "throw" /\ RemovedKeys(last) = {}
       ELSE last.out.kind = "return" /\ RemovedKeys(last) = UntrustedKeys(last)

\* C5: for getItem and multiGet the effective failure mode is the per-call
\* onFailure when supplied, otherwise the global one, otherwise "clear"; the
\* override decides even against the opposite global mode, and no call ever
\* changes the global options, so a later call without an override follows
\* the global configuration.
C5_ModePrecedence == [](FollowsClaimMode) /\ [][cfg' = cfg]_vars
C5_Witness ==
  /\ IsMultiGet(last)
  /\ UntrustedKeys(last) # {}
  /\ last.call.opts.onFailure = "throw" /\ cfg.onFailure = "clear"
  /\ last.out.kind = "throw"

\* C6: the observer a call uses is its own onValidationError when supplied,
\* otherwise the global one, whatever way onFailure was resolved: only that
\* observer is invoked, it is invoked for every validation failure of the
\* call, and the failure mode is still resolved on its own.
C6_ObserverPrecedence ==
  IsRead(last) =>
    /\ \A i \in 1..Len(last.ev) :
         IsObserver(last.ev[i]) => last.ev[i].e = ClaimObserver(last.call.opts)
    /\ \A key \in UntrustedKeys(last) :
         (ValidationFails(key, AnswerFor(last, key)) /\ ClaimObserver(last.call.opts) # "none")
           => Positions(last, ClaimObserver(last.call.opts), key) # {}
    /\ (UntrustedKeys(last) # {})
         => (last.out.kind = "throw") = (ClaimMode(last.call.opts) = "throw")
C6_Witness ==
  /\ IsGetItem(last)
  /\ last.call.opts = [onFailure |-> "throw", onValidationError |-> FALSE]
  /\ cfg.onFailure = "clear" /\ cfg.onValidationError
  /\ ValidationFails(last.call.k, ReadOf(last))
  /\ Positions(last, "observer.global", last.call.k) # {}
  /\ last.out.kind = "throw"

\* v satisfies the schema of key: the schema accepts it
Satisfies(key, v) == SafeParse(key, v).success
\* the schema hands v back as it is: no member stripped, nothing transformed
SchemaKeeps(key, v) == DeepEqual(SafeParse(key, v).data, v)
\* JSON represents v faithfully
JsonFaithful(v) ==
  /\ ~StringifyThrows(v)
  /\ JSONParse(JSONStringify(v)).ok
  /\ DeepEqual(JSONParse(JSONStringify(v)).v, v)
\* setItem(k, v) on a schema-bound key with a satisfying v, then getItem(k)
SetThenGet ==
  /\ prev.call.op = "setItem"
  /\ prev.call.k \in SchemaKeys
  /\ Satisfies(prev.call.k, prev.call.v)
  /\ IsGetItem(last)
  /\ last.call.k = prev.call.k
ReadBack ==
  /\ last.out.kind = "return"
  /\ DeepEqual(last.out.v, prev.call.v)
  /\ WritesOf(last) = <<>>

\* C7 as stated: for every schema-bound key k and every v satisfying its
\* schema, setItem(k, v) then getItem(k) returns a value deeply equal to v,
\* issues no remove and does not fail.
C7_RoundTrip_AsStated == SetThenGet => ReadBack
\* C7: setItem(k, v) then getItem(k) returns a value deeply equal to v, with
\* no remove and no failure, for every v that satisfies k's schema, that the
\* schema hands back unchanged and that JSON represents faithfully (a Date
\* comes back from JSON as a string; an object schema drops unknown members).
C7_RoundTrip ==
  (SetThenGet /\ SchemaKeeps(prev.call.k, prev.call.v) /\ JsonFaithful(prev.call.v))
    => ReadBack
C7_Witness ==
  /\ SetThenGet
  /\ prev.call.v = UserB
  /\ last.out.v = UserA
  /\ WritesOf(last) = <<>>
  /\ ClaimMode(last.call.opts) = "throw"

\* C8: for every key absent from the Registry, setItem(k, s) writes s
\* unchanged and the following getItem(k) returns exactly s, with no observer
\* call, no remove and no failure, whatever the text and the failure mode.
C8_Passthrough ==
  (prev.call.op = "setItem" /\ prev.call.k \notin SchemaKeys /\ IsGetItem(last))
    => /\ WritesOf(prev) = <<Ev("store.setItem", prev.call.k, prev.call.v)>>
       /\ last.out = Return(prev.call.v)
       /\ WritesOf(last) = <<>>
       /\ ObserversOf(last) = <<>>

\* C9: with an untrusted entry under schema-bound k and mode "clear", two
\* consecutive getItem(k) both return null: the first issues one remove for
\* k; the second reads an absent entry and does nothing else: no observer,
\* no log, no second remove.
C9_IdempotentClear ==
  (UntrustedGet(prev) /\ ClaimMode(prev.call.opts) = "clear" /\ IsGetItem(last))
    => /\ prev.out = Return(JNull)
       /\ WritesOf(prev) = <<Ev("store.removeItem", prev.call.k, JNull)>>
       /\ ReadOf(last) = JNull
       /\ last.out = Return(JNull)
       /\ \A i \in 2..Len(last.ev) : last.ev[i] = Ev("callback.ok", last.call.k, JNull)
C9_Witness ==
  /\ UntrustedGet(prev) /\ ClaimMode(prev.call.opts) = "clear"
  /\ IsGetItem(last) /\ ClaimMode(last.call.opts) = "clear"
  /\ last.call.k = prev.call.k
  /\ ParseFails(ReadOf(prev))
  /\ last.out = Return(JNull)

\* what the entry stored under key resolves to when read under "clear"
Resolved(key, raw) ==
  IF raw.t = "null" THEN JNull
  ELSE IF key \notin SchemaKeys THEN raw
  ELSE IF Untrusted(key, raw) THEN JNull
  ELSE SafeParse(key, JSONParse(raw.s).v).data

\* C10: multiGet(keys) returns one [key, value] pair per input key, in input
\* order, the value at position i being the resolved value of the entry
\* stored under keys[i], in whatever order the store returns its pairs.
C10_BatchOrder ==
  (IsMultiGet(last) /\ last.out.kind = "return")
    => /\ Len(last.out.v.f) = Len(last.call.keys)
       /\ \A i \in 1..Len(last.call.keys) :
            /\ last.out.v.f[i].n = <<last.call.keys[i]>>
            /\ last.out.v.f[i].v =
                 Resolved(last.call.keys[i], AnswerFor(last, last.call.keys[i]))

\* the keys of a multiGet whose answer parsed and then failed the schema
InvalidKeys(rec) == {key \in UntrustedKeys(rec) : ValidationFails(key, AnswerFor(rec, key))}
\* the positions, in the store's answer, of the pairs that cannot be trusted
FailingPairs(rec) ==
  LET pairs == ReadOf(rec).f
  IN {i \in 1..Len(pairs) : pairs[i].n[1] \in SchemaKeys /\ Untrusted(pairs[i].n[1], pairs[i].v)}
FirstFailing(rec) == CHOOSE i \in FailingPairs(rec) : \A j \in FailingPairs(rec) : i <= j
ObservedKeys(rec) == {rec.ev[i].k : i \in {j \in 1..Len(rec.ev) : IsObserver(rec.ev[j])}}

\* C11: under "clear" every pair multiGet returns is resolved on its own: the
\* pair of a key whose entry is absent holds null, that of a key whose entry
\* passes holds the validated value, that of a key whose entry fails parsing
\* or validation holds null; one remove is issued for each failing key and
\* none for any other key.
C11_PerItemClear ==
  (IsMultiGet(last) /\ ClaimMode(last.call.opts) = "clear")
    => /\ last.out.kind = "return"
       /\ Len(last.out.v.f) = Len(last.call.keys)
       /\ \A i \in 1..Len(last.call.keys) :
            LET key == last.call.keys[i]
                pair == last.out.v.f[CHOOSE j \in 1..Len(last.out.v.f) :
                                       last.out.v.f[j].n = <<key>>]
            IN /\ AnswerFor(last, key) = JNull => pair.v = JNull
               /\ key \in UntrustedKeys(last) => pair.v = JNull
               /\ (AnswerFor(last, key) # JNull /\ key \notin UntrustedKeys(last))
                    => pair.v = Resolved(key, AnswerFor(last, key))
       /\ RemovedKeys(last) = UntrustedKeys(last)
       /\ Len(WritesOf(last)) = Cardinality(UntrustedKeys(last))

\* what multiGet does under "throw" when an answer cannot be trusted: it
\* fails with the error of the first failing pair of the store's answer,
\* returns no list and issues no remove nor any other write
AbortsBatch ==
  /\ last.out.kind = "throw"
  /\ last.out.v.t = "error"
  /\ last.out.v.s[2] = ReadOf(last).f[FirstFailing(last)].n[1]
  /\ WritesOf(last) = <<>>
ThrowingBatch ==
  IsMultiGet(last) /\ ClaimMode(last.call.opts) = "throw" /\ UntrustedKeys(last) # {}

\* C12 as stated: such a multiGet fails on the first failure, returns no
\* partial list, issues no remove, and does not process the items after the
\* first failing one: their observer is not invoked.
C12_BatchAbort_AsStated ==
  ThrowingBatch
    => /\ AbortsBatch
       /\ \A i \in FailingPairs(last) :
            i > FirstFailing(last) => ReadOf(last).f[i].n[1] \notin ObservedKeys(last)
\* C12: such a multiGet fails with the error of the first failing pair,
\* returns no partial list and issues no remove; every pair is still
\* processed, so the observer is invoked once for each pair that fails
\* validation, those after the first failing one included.
C12_BatchAbort ==
  ThrowingBatch
    => /\ AbortsBatch
       /\ \A key \in InvalidKeys(last) :
            ClaimObserver(last.call.opts) # "none"
              => Cardinality(Positions(last, ClaimObserver(last.call.opts), key)) = 1
       /\ ObservedKeys(last) \subseteq InvalidKeys(last)
C12_Witness ==
  /\ ThrowingBatch
  /\ Cardinality(FailingPairs(last)) = 2
  /\ Cardinality(ObservedKeys(last)) = 2
  /\ last.out.kind = "throw"

\* a call that invoked the failing primitive
MetFault == last # NoRecord /\ fault # NoFault
FailuresOf(rec) == SelectSeq(rec.ev, LAMBDA x : x.e = "fail." \o fault.p)

\* C13: when the store primitive an operation invokes fails with a value e (an
\* Error or any other thrown value), the operation of either facade fails
\* with that same e, not wrapped, converted or replaced, and the primitive is
\* invoked once only.
C13_StoreFailureUnchanged ==
  MetFault => (last.out = Throw(fault.e) /\ Len(FailuresOf(last)) = 1)

CallbacksOf(rec) ==
  SelectSeq(rec.ev, LAMBDA x : x.e \in {"callback.ok", "callback.err", "callback.errs"})
\* the value an operation hands its callback on success: the result of the
\* reads, nothing but the null error for the writes
Delivered(rec) == IF rec.out.v = JUndefined THEN JNull ELSE rec.out.v

\* C14: an async operation called with a callback that resolves with r has
\* invoked the callback with (null, r), and one that rejects with e has
\* invoked it with that same e, whatever failed: the store, the engine under
\* "throw", or the serialization; single-key and batch operations alike.
C14_CallbackMirrors ==
  (last # NoRecord /\ last.call.cb)
    => IF last.out.kind = "return"
       THEN \E i \in 1..Len(last.ev) :
              last.ev[i].e = "callback.ok" /\ last.ev[i].v = Delivered(last)
       ELSE \E i \in 1..Len(last.ev) :
              last.ev[i].e = "callback.err" /\ last.ev[i].v = last.out.v

BatchOps == {"multiGet", "multiSet", "multiRemove", "multiMerge"}
\* C15: when a store primitive fails, getItem, setItem, removeItem, mergeItem,
\* clear and getAllKeys hand the callback the error as its first argument (the
\* Error thrown, or the Error made of a thrown value that is none), multiGet,
\* multiSet, multiRemove and multiMerge hand it a one-element list holding
\* that error; on success every operation hands it null as first argument.
C15_CallbackErrorShape ==
  (last # NoRecord /\ last.call.cb)
    => /\ MetFault =>
            CallbacksOf(last) =
              <<Ev(IF last.call.op \in BatchOps THEN "callback.errs" ELSE "callback.err",
                   last.call.k, toError(fault.e))>>
       /\ last.out.kind = "return" =>
            CallbacksOf(last) = <<Ev("callback.ok", last.call.k, Delivered(last))>>
C15_Witness ==
  /\ MetFault /\ last.call.cb
  /\ last.call.op = "multiRemove"
  /\ fault.e = StoreString
  /\ CallbacksOf(last) = <<Ev("callback.errs", "", toError(StoreString))>>

\* C16: when the store answers null for k, getItem(k) returns null at once,
\* for schema-bound and schema-less keys alike and under either failure mode:
\* nothing is parsed or validated, no observer is invoked, nothing is logged
\* or removed, and an async callback receives (null, null).
C16_AbsentShortCircuit ==
  (IsGetItem(last) /\ ReadOf(last) = JNull)
    => /\ last.out = Return(JNull)
       /\ last.ev = <<Ev("store.getItem", last.call.k, JNull)>>
                    \o (IF last.call.cb THEN <<Ev("callback.ok", last.call.k, JNull)>> ELSE <<>>)
C16_Witness ==
  /\ IsGetItem(last) /\ ReadOf(last) = JNull
  /\ last.call.k = "user" /\ last.call.cb
  /\ ClaimMode(last.call.opts) = "throw" /\ ClaimObserver(last.call.opts) = "observer.call"
  /\ Len(last.ev) = 2

\* what the claims say reaches the store for (key, value)
Serialized(key, value) == IF key \in SchemaKeys THEN JStr(JSONStringify(value)) ELSE value
\* C17: setItem and mergeItem, and multiSet and multiMerge for each pair in
\* input order, hand the store the JSON text of the value when the key has a
\* schema and the value itself when it has none, in exactly one request to
\* the matching primitive.
C17_WriteSerialization ==
  (last.call.op \in {"setItem", "mergeItem", "multiSet", "multiMerge"}
     /\ last.out.kind = "return")
    => LET writes == SelectSeq(last.ev, LAMBDA x : SubSeq(x.e, 1, 6) = "store.") IN
       /\ Len(writes) = 1
       /\ writes[1].e = "store." \o last.call.op
       /\ IF last.call.op \in {"setItem", "mergeItem"}
          THEN /\ writes[1].k = last.call.k
               /\ writes[1].v = Serialized(last.call.k, last.call.v)
          ELSE /\ Len(writes[1].v.f) = Len(last.call.keys)
               /\ \A i \in 1..Len(last.call.keys) :
                    /\ writes[1].v.f[i].n = <<last.call.keys[i]>>
                    /\ writes[1].v.f[i].v = Serialized(last.call.keys[i], last.call.v.f[i].v)

\* C18: setItem on a schema-bound key with a value its schema rejects fails
\* and writes nothing, so that an entry the facade wrote for a schema-bound
\* key passes validation on the next getItem.
C18_ValidationOnWrite ==
  /\ (last.call.op = "setItem" /\ last.call.k \in SchemaKeys
        /\ ~Satisfies(last.call.k, last.call.v))
       => (last.out.kind = "throw" /\ WritesOf(last) = <<>>)
  /\ (prev.call.op = "setItem" /\ prev.call.k \in SchemaKeys /\ prev.out.kind = "return"
        /\ IsGetItem(last))
       => ~ValidationFails(last.call.k, ReadOf(last))

ViewOps == {"view.getItem", "view.setItem", "view.removeItem", "view.mergeItem"}
\* what the facade itself does, on the same store, when called with the key first
FacadeCalled(c) ==
  IF variant = "sync"
  THEN CASE c.op = "view.getItem"    -> SyncGetItem(store, c.k, c.opts)
         [] c.op = "view.setItem"    -> SyncSetItem(store, c.k, c.v)
         [] c.op = "view.removeItem" -> SyncRemoveItem(store, c.k)
  ELSE CASE c.op = "view.getItem"    -> AsyncGetItem(store, c.k, c.opts, c.cb)
         [] c.op = "view.setItem"    -> AsyncSetItem(store, c.k, c.v, c.cb)
         [] c.op = "view.removeItem" -> AsyncRemoveItem(store, c.k, c.cb)
         [] c.op = "view.mergeItem"  -> AsyncMergeItem(store, c.k, c.v, c.cb)

\* C19: each operation of the view bound to k does what the facade does when
\* called with k as first argument, options and callback passed through: the
\* same events in the same order and the same outcome, hence the same store
\* afterwards; and it leaves the entry of every other key as it was.
C19_ViewEquivalence ==
  [][last'.call.op \in ViewOps
       => /\ Result(last'.ev, last'.out) = FacadeCalled(last'.call)
          /\ store' = StoreAfter(store, FacadeCalled(last'.call).ev)
          /\ \A k \in AllKeys \ {last'.call.k} : store'[k] = store[k]]_vars
C19_Witness ==
  /\ variant = "async"
  /\ last.call.op = "view.getItem" /\ prev.call.op = "view.setItem"
  /\ last.call.opts.onFailure = "throw" /\ last.call.cb
  /\ last.out.kind = "throw"
  /\ store[last.call.k] # JNull

\* C20: two facades built from the same Registry and the same onFailure,
\* debug and onValidationError, one with strict true and one with strict
\* false (or without it), give for every operation on every key, registered
\* or not, the same events, the same result or error and the same store
\* effect: a key outside the Registry is served under strict as without it.
C20_StrictNoEffect == last.call.op = "rebuild" => EveryCall = last.out.v.f
C20_Witness ==
  /\ last.call.op = "rebuild"
  /\ cfg.strict = "true"
  /\ store["token"] = JStr(CorruptText)
  /\ store["toString"] # JNull
  /\ store["user"] = JStr(JSONStringify(BadUser))
  /\ EveryCall[5]["token"][NoOptions].out = Return(JStr(CorruptText))
\* C21: "Cleared invalid item" is logged for key k exactly when debug is
\* enabled and a read under "clear" has issued the recovery remove for k: once
\* per recovery, after that remove; never with debug off, never under
\* "throw", never for a key whose value was absent, raw or valid, and never by
\* an operation that is not a read.
C21_RecoveryLogging ==
  \A key \in AllKeys :
    LET warns == Positions(last, "console.warn", key)
        removes == Positions(last, "store.removeItem", key)
        recovered == /\ IsRead(last) /\ ClaimMode(last.call.opts) = "clear"
                     /\ key \in UntrustedKeys(last) /\ removes # {}
    IN /\ warns # {} <=> (cfg.debug /\ recovered)
       /\ warns # {} => /\ Cardinality(warns) = 1 /\ Cardinality(removes) = 1
                        /\ \A w \in warns, r \in removes : r < w
C21_Witness ==
  /\ IsMultiGet(last) /\ cfg.debug
  /\ Cardinality(UntrustedKeys(last)) = 2
  /\ \A key \in UntrustedKeys(last) : Positions(last, "console.warn", key) # {}
  /\ store["user"] = JNull /\ store["lastSeen"] = JNull
\* the entry of key after the call of rec: what rec wrote last, else what it read
LeftBy(rec) ==
  LET writes == {i \in 1..Len(rec.ev) : IsWrite(rec.ev[i])}
  IN IF writes = {} THEN ReadOf(rec)
     ELSE LET w == rec.ev[CHOOSE i \in writes : \A j \in writes : j <= i]
          IN IF w.e = "store.setItem" THEN w.v ELSE JNull
StoreReads(rec) ==
  {i \in 1..Len(rec.ev) : rec.ev[i].e \in {"store.getItem", "store.multiGet"}}
\* the facade asked for the same key on a store holding nothing but `raw`
Afresh(rec, raw) ==
  LET st == [Absent EXCEPT ![rec.call.k] = raw]
  IN IF variant = "sync" THEN SyncGetItem(st, rec.call.k, rec.call.opts)
     ELSE AsyncGetItem(st, rec.call.k, rec.call.opts, rec.call.cb)

\* C22: every getItem issues exactly one store read, for its key, and what it
\* does and returns is what a first getItem would on the value just read;
\* after another call on the same key the value read is the entry that call
\* left in the store (the text a setItem wrote, nothing after a removal),
\* never the value an earlier call read or returned.
C22_NoCaching ==
  IsGetItem(last)
    => /\ StoreReads(last) = {1}
       /\ last.ev[1].e = "store.getItem" /\ last.ev[1].k = last.call.k
       /\ Result(last.ev, last.out) = Afresh(last, ReadOf(last))
       /\ prev # NoRecord => ReadOf(last) = LeftBy(prev)
C22_Witness ==
  /\ IsGetItem(last) /\ IsGetItem(prev)
  /\ Untrusted(prev.call.k, ReadOf(prev)) /\ prev.out = Return(JNull)
  /\ ReadOf(last) = JNull /\ last.out = Return(JNull)
  /\ StoreReads(last) = {1} /\ StoreReads(prev) = {1}
\* the key whose failure a throwing read reports: the key asked for, or the
\* key of the first failing pair of the store's answer
ReportedKey(rec) ==
  IF IsGetItem(rec) THEN rec.call.k ELSE ReadOf(rec).f[FirstFailing(rec)].n[1]
CategoryOf(key, raw) ==
  IF ParseFails(raw) THEN "Invalid JSON for key" ELSE "Validation failed for key"

\* C23: under "throw" a getItem or multiGet that meets a stored value failing
\* parsing or validation raises an error that names the failing key and the
\* stage that failed: "Invalid JSON for key" when the text is not JSON,
\* "Validation failed for key" when the parsed value fails the schema; the
\* async callback is handed the same error.
C23_ThrowErrorNamesKey ==
  (IsRead(last) /\ ClaimMode(last.call.opts) = "throw" /\ UntrustedKeys(last) # {})
    => LET key == ReportedKey(last)
           error == JError(CategoryOf(key, AnswerFor(last, key)), key)
       IN /\ last.out = Throw(error)
          /\ last.call.cb => \E i \in 1..Len(last.ev) :
                                /\ last.ev[i].e \in {"callback.err", "callback.errs"}
                                /\ last.ev[i].v = error
C23_Witness ==
  /\ IsMultiGet(last) /\ ClaimMode(last.call.opts) = "throw"
  /\ Cardinality(UntrustedKeys(last)) = 2
  /\ ParseFails(AnswerFor(last, "user")) /\ ValidationFails("lastSeen", AnswerFor(last, "lastSeen"))
  /\ last.out = Throw(JError("Validation failed for key", "lastSeen"))
\* the keys a read asks for
AskedKeys(rec) ==
  IF IsGetItem(rec) THEN {rec.call.k}
  ELSE {rec.call.keys[i] : i \in 1..Len(rec.call.keys)}
\* a read all of whose values are absent, of a key outside the Registry, or
\* text that parses and satisfies the schema of its key
CleanRead(rec) ==
  /\ IsRead(rec) /\ rec.ev # <<>> /\ StoreReads(rec) = {1}
  /\ \A key \in AskedKeys(rec) : key \in SchemaKeys => ~Untrusted(key, AnswerFor(rec, key))

\* C26: a getItem or multiGet all of whose values are absent, belong to a key
\* without a schema, or pass parsing and validation issues no write and no
\* remove: every entry read is still in the store as it was read, also when
\* the value returned differs from the text stored (members stripped).
C26_ReadsDoNotWrite ==
  CleanRead(last)
    => /\ WritesOf(last) = <<>>
       /\ \A key \in AskedKeys(last) : store[key] = AnswerFor(last, key)
\* a getItem under "clear" whose recovery remove the store refused
RemoveRefused(rec) ==
  /\ UntrustedGet(rec) /\ ClaimMode(rec.call.opts) = "clear"
  /\ fault.p = "removeItem"

\* C27: when a getItem under "clear" finds the value of a schema-bound key
\* failing parsing or validation and the store's remove then fails with e,
\* the getItem does not return null: it fails with e, logs no recovery, hands
\* the error to the callback (async), and the invalid entry stays in the store.
C27_RemoveFailure ==
  RemoveRefused(last)
    => /\ last.out = Throw(fault.e)
       /\ Positions(last, "console.warn", last.call.k) = {}
       /\ last.call.cb =>
            CallbacksOf(last) = <<Ev("callback.err", last.call.k, toError(fault.e))>>
       /\ store[last.call.k] = ReadOf(last)
\* C29: a key that is not an entry of the Registry but names a property every
\* object inherits has no schema: setItem hands the store the string it was
\* given, and getItem returns the text it read, with no remove, no observer
\* call and no failure, as for any other key outside the Registry.
C29_OwnEntriesOnly ==
  last.call.k \in InheritedKeys
    => /\ last.call.op = "setItem"
            => WritesOf(last) = <<Ev("store.setItem", last.call.k, last.call.v)>>
       /\ IsGetItem(last)
            => /\ last.out = Return(ReadOf(last))
               /\ WritesOf(last) = <<>>
               /\ ObserversOf(last) = <<>>
\* C25: an async operation called with a callback invokes it exactly once
\* before it settles: when it succeeds, when the store fails, when the engine
\* fails, and when the callback itself raises.
C25_CallbackOnce ==
  (last # NoRecord /\ last.call.cb) => Len(CallbacksOf(last)) = 1
\* the call of caller t as a record of what it did
RecordOf(t) == [call |-> tasks[t].call, ev |-> tasks[t].res.ev, out |-> tasks[t].res.out]
Answered(t) == tasks[t].pc \in {"awaiting", "settled"}

\* C24: the remove a clear-mode getItem or multiGet issues for key k deletes
\* nothing but the text that read found invalid under k: never a value a
\* concurrent setItem(k, v) has stored in the meantime.
C24_RemoveOnlyWhatWasRead ==
  \A t \in Callers :
    \A d \in tasks[t].deleted : d.v = JNull \/ d.v = AnswerFor(RecordOf(t), d.k)

\* a multiGet of caller t that has resolved, the other caller having called nothing
ResolvedAlone(t) ==
  /\ tasks[t].call.op = "multiGet" /\ tasks[t].pc = "settled"
  /\ tasks[t].res.out.kind = "return"
  /\ \A u \in Callers \ {t} : tasks[u].pc = "idle"

\* C28: when a clear-mode multiGet resolves, every remove it issued has been
\* served, in whatever order: with no other call in flight, every key whose
\* value failed parsing or validation is absent from the store when the
\* result and the callback are delivered.
C28_SettlesAfterRemovals ==
  \A t \in Callers :
    /\ (tasks[t].call.op = "multiGet" /\ tasks[t].pc = "settled" /\ tasks[t].res.out.kind = "return")
         => /\ tasks[t].pending = {}
            /\ {d.k : d \in tasks[t].deleted} = UntrustedKeys(RecordOf(t))
    /\ ResolvedAlone(t) => \A key \in UntrustedKeys(RecordOf(t)) : store[key] = JNull
C28_Witness ==
  /\ ResolvedAlone("a")
  /\ UntrustedKeys(RecordOf("a")) = {"user", "lastSeen"}
  /\ store["user"] = JNull /\ store["lastSeen"] = JNull

\* C30: when the store answers every request, every call of the async facade
\* settles; once settled it stays as it settled; and every remove it issued
\* is served once: none is issued again.
C30_EverySettles ==
  /\ \A t \in Callers : (tasks[t].pc = "called") ~> (tasks[t].pc = "settled")
  /\ [][\A t \in Callers : tasks[t].pc = "settled" => tasks'[t] = tasks[t]]_vars
  /\ [](\A t \in Callers :
         Answered(t) => Cardinality(tasks[t].deleted) + Cardinality(tasks[t].pending)
                          = Cardinality(Awaited(tasks[t].res)))
C30_Witness ==
  /\ tasks["a"].pc = "settled" /\ tasks["b"].pc = "settled"
  /\ tasks["a"].call.op = "multiGet" /\ Cardinality(tasks["a"].deleted) = 2
  /\ tasks["b"].call.op = "setItem"
====
